---- MODULE Spec2Model ----
(***************************************************************************)
(* Model of the longevity chat agent: the HTTP entry point (app.py), the   *)
(* LangGraph workflow of chat_agent/graph.py and the history store of      *)
(* chat_agent/db_helper.py.  One turn is one pass of a ChatAgentState      *)
(* through the graph built by build_graph.                                 *)
(*                                                                         *)
(* Python values are modelled as follows: a missing dictionary key is      *)
(* ABSENT, None is NONE, strings are strings.  A formatted error string    *)
(* f"Node <name>: <detail>" is the pair <<"Node <name>", detail>>.  The    *)
(* compact chat history is the sequence of its lines (the empty string is  *)
(* the empty sequence).                                                    *)
(***************************************************************************)
EXTENDS Integers, Sequences, FiniteSets, TLC

VARIABLES
    request,           \* the arguments of the call: user_query, user_id, session_id, enable_streaming
    pc,                \* the step about to run
    via,               \* "http": called through app.py, "direct": run_chat_agent called directly
    user_input,        \* state["user_input"]
    user_id,           \* state["user_id"]
    session_id,        \* state["session_id"]
    enable_streaming,  \* state["enable_streaming"]
    chat_history,      \* state["chat_history"]
    route,             \* state["route"]
    rejection_message, \* state["rejection_message"]
    final_answer,      \* state["final_answer"]
    error,             \* state["error"], <<>> when the key is missing
    log,               \* every adapter call, writer call and final_answer assignment, in order
    stream,            \* chunks put on the custom stream by the writer and not yet yielded
    delivered,         \* frames already yielded to the caller, oldest first
    store,             \* ChatHistory messages built by persist_chat_history
    uuids,             \* number of session identifiers allocated so far
    returned,          \* the dict run_chat_agent returned in normal mode
    response           \* the HTTP response of app.py

vars == <<request, pc, via, user_input, user_id, session_id, enable_streaming,
          chat_history, route, rejection_message, final_answer, error,
          log, stream, delivered, store, uuids, returned, response>>

graphState == <<user_input, user_id, session_id, enable_streaming,
                chat_history, route, rejection_message, final_answer, error>>

-----------------------------------------------------------------------------
(* Python values *)

ABSENT == "<absent>"
NONE == "<None>"

\* Python truthiness of a string-or-None value (a missing key reads as falsy through .get)
Falsy(x) == x \in {ABSENT, NONE, ""}

\* dict.get(key, default)
Get(x, default) == IF x = ABSENT THEN default ELSE x

\* str.strip() == "" on the inputs of the model
IsBlank(x) == x \in {"", " "}

Routes == {"aging_biomarker_tool", "longevity_clinical_trial_tool",
           "general_knowledge", "rejection_handler"}

AbsentHistory == << <<ABSENT>> >>

NoResult == [done |-> FALSE, answer |-> NONE, session_id |-> NONE, error |-> <<>>]

NoResponse == [kind |-> "none", status |-> 0, answer |-> NONE,
               session_id |-> NONE, error |-> <<>>]

-----------------------------------------------------------------------------
(* Bounds *)

MaxHistory == 2     \* longest history the store returns

-----------------------------------------------------------------------------
(* Inputs *)

UserInputs == {"", " ", "q"}
UserIds == {"", " ", "u1"}
SessionIds == {NONE, "", "s1"}

\* stored messages a fetch may return
StoredEntries ==
    { [role |-> "user", tool_used |-> NONE, message |-> "hi"],
      [role |-> "assistant", tool_used |-> "aging_biomarker_tool", message |-> "a1"],
      [role |-> "assistant", tool_used |-> NONE, message |-> "a2"],
      [role |-> "user", tool_used |-> NONE, message |-> ""] }

RECURSIVE SeqsUpTo(_, _)
SeqsUpTo(S, n) ==
    IF n = 0 THEN { <<>> }
    ELSE LET shorter == SeqsUpTo(S, n - 1)
         IN shorter \cup { Append(s, e) : s \in { t \in shorter : Len(t) = n - 1 }, e \in S }

Histories == SeqsUpTo(StoredEntries, MaxHistory)

-----------------------------------------------------------------------------
(* Records of the log *)

Call(op, node, arg, sid, tool, result) ==
    [op |-> op, node |-> node, arg |-> arg, sid |-> sid, tool |-> tool, result |-> result,
     role |-> NONE]

\* the error string of every node written with the name of the first node
Err_pasted(node, detail) == <<"Node get_chat_history", detail>>

\* f"Node <node>: <detail>"
Err(node, detail) == <<"Node " \o node, detail>>

\* the skip guard left out
Skip_never(errors) == FALSE

\* the skip guard negated
Skip_inverted(errors) == errors = <<>>

\* `if state.get("error")`, the first statement of every node but stream_final_response
Skip(errors) == errors # <<>>

\* an exception raised inside a node, as it is recorded in the log
\* (handler: "node" for the node's own except clause, "inner" for a try
\* block inside the node)
Raise(node, detail, handler) == Call("raise", node, detail, NONE, NONE, handler)

-----------------------------------------------------------------------------
Init ==
    /\ request \in [user_query : UserInputs, user_id : UserIds,
                    session_id : SessionIds, enable_streaming : BOOLEAN]
    /\ pc = "start"
    /\ via = "none"
    /\ user_input = ABSENT
    /\ user_id = ABSENT
    /\ session_id = ABSENT
    /\ enable_streaming = FALSE
    /\ chat_history = AbsentHistory
    /\ route = ABSENT
    /\ rejection_message = ABSENT
    /\ final_answer = ABSENT
    /\ error = <<>>
    /\ log = <<>>
    /\ stream = <<>>
    /\ delivered = <<>>
    /\ store = <<>>
    /\ uuids = 0
    /\ returned = NoResult
    /\ response = NoResponse

-----------------------------------------------------------------------------
(* app.py *)

\* the two validation branches of chat_with_ai_agent
Invalid == IsBlank(request.user_query) \/ IsBlank(request.user_id)

\* The HTTPException(status_code=400) of a validation branch is raised inside
\* the try block, so the `except Exception` clause of the handler catches it
\* and answers with status 500 and str(e), "400: {'code': ...}".
ValidationError ==
    [kind |-> "json", status |-> 500, answer |-> NONE, session_id |-> NONE,
     error |-> << <<"400", IF IsBlank(request.user_query) THEN "USER_QUERY_NOT_PROVIDED"
                                                   ELSE "USER_ID_NOT_PROVIDED">> >>]

\* StreamingResponse(run_chat_agent(...), status_code=200): the body is the event stream
StreamingResponse ==
    [kind |-> "stream", status |-> 200, answer |-> ABSENT, session_id |-> ABSENT,
     error |-> <<>>]

\* the state run_chat_agent builds from its arguments
InitialState ==
    /\ user_input' = request.user_query
    /\ user_id' = request.user_id
    /\ session_id' = request.session_id
    /\ enable_streaming' = request.enable_streaming
    /\ UNCHANGED <<chat_history, route, rejection_message, final_answer, error>>

\* POST /chat_ai/agent up to the call of run_chat_agent
chat_with_ai_agent ==
    /\ pc = "start"
    /\ via' = "http"
    /\ IF Invalid
         THEN /\ pc' = "responded"
              /\ response' = ValidationError
              /\ UNCHANGED graphState
         ELSE /\ pc' = "get_chat_history"
              /\ response' = IF request.enable_streaming THEN StreamingResponse ELSE response
              /\ InitialState
    /\ UNCHANGED <<request, log, stream, delivered, store, uuids, returned>>

\* run_chat_agent called by another caller than app.py: no validation
run_chat_agent ==
    /\ pc = "start"
    /\ via' = "direct"
    /\ pc' = "get_chat_history"
    /\ InitialState
    /\ UNCHANGED <<request, log, stream, delivered, store, uuids, returned, response>>

-----------------------------------------------------------------------------
(* utils.py *)

\* one line of the compact history
CompactLine(entry) ==
    IF ~Falsy(entry.tool_used)
    THEN <<entry.role, "tool_used", entry.tool_used, entry.message>>
    ELSE <<entry.role, entry.message>>

RECURSIVE create_compact_chat_history(_)
create_compact_chat_history(db_chat_history) ==
    IF db_chat_history = <<>> THEN <<>>
    ELSE LET entry == Head(db_chat_history)
             rest == create_compact_chat_history(Tail(db_chat_history))
         IN IF entry.role \in {"user", "assistant"} /\ entry.message # ""
            THEN <<CompactLine(entry)>> \o rest
            ELSE rest

-----------------------------------------------------------------------------
(* db_helper.py: fetch_chat_history *)

\* The results fetch_chat_history can return.  Without a session it returns
\* the empty history before touching the store; with one, the store answers
\* with messages (as objects, or as the dicts the annotation declares) or
\* the query fails and the failure is reported in the result.
FetchResults(sid) ==
    IF Falsy(sid)
    THEN { [status |-> "success", chat_history |-> <<>>, shape |-> "objects", message |-> NONE] }
    ELSE { [status |-> "success", chat_history |-> h, shape |-> s, message |-> NONE] :
             h \in Histories, s \in {"objects", "dicts"} }
         \cup { [status |-> "error", chat_history |-> <<>>, shape |-> "objects", message |-> "db down"] }

-----------------------------------------------------------------------------
(* graph.py: nodes *)

get_chat_history ==
    /\ pc = "get_chat_history"
    /\ pc' = "classify_and_route"
    /\ IF Skip(error)
         THEN UNCHANGED <<graphState, log>>
         ELSE IF Falsy(Get(user_id, ""))
         THEN /\ error' = Append(error, Err("get_chat_history", "user_id missing"))
              /\ UNCHANGED <<user_input, user_id, session_id, enable_streaming,
                             chat_history, route, rejection_message, final_answer, log>>
         ELSE \E result \in FetchResults(Get(session_id, "")) :
              /\ log' = Append(log, Call("fetch", "get_chat_history", user_id,
                                         Get(session_id, ""), NONE, result.status))
                        \o IF result.status = "success" /\ result.chat_history # <<>>
                              /\ result.shape = "dicts"
                           THEN <<Raise("get_chat_history", "AttributeError", "node")>>
                           ELSE <<>>
              /\ IF result.status = "success"
                   THEN IF result.chat_history # <<>>
                          THEN IF result.shape = "objects"
                                 THEN /\ chat_history' = create_compact_chat_history(result.chat_history)
                                      /\ UNCHANGED error
                                 ELSE \* entry.role on a dict raises AttributeError
                                      /\ error' = Append(error, Err("get_chat_history", "AttributeError"))
                                      /\ UNCHANGED chat_history
                          ELSE /\ chat_history' = <<>>
                               /\ UNCHANGED error
                   ELSE /\ error' = Append(error, Err("get_chat_history", result.message))
                        /\ UNCHANGED chat_history
              /\ UNCHANGED <<user_input, user_id, session_id, enable_streaming,
                             route, rejection_message, final_answer>>
    /\ UNCHANGED <<request, via, stream, delivered, store, uuids, returned, response>>

(* utils.py: parse_routing_decision *)

\* The text of a reply of the model, by what parse_routing_decision makes
\* of it.  fence: "none" (bare text), "json" (the text starts with a json
\* code fence), "plain" (it starts with a fence without a tag), "tagged" (it
\* starts with a fence with another tag), "inner" (the fence comes after
\* some prose).  body: what stands inside: a JSON object, a JSON object with
\* a trailing comma, a JSON array, or no JSON at all.  data: the keys of the
\* object, ABSENT for a missing key.
Fences == {"none", "json", "plain", "tagged", "inner"}
Bodies == {"object", "trailing_comma", "array", "garbage"}

Text(fence, body, data) == [fence |-> fence, body |-> body, data |-> data]

Data(decision, reasoning, message, err) ==
    [decision |-> decision, reasoning |-> reasoning,
     rejection_message |-> message, error |-> err]

\* objects that fit the RouterOutput schema
ValidData ==
    { Data(d, "because", m, e) :
        d \in Routes, m \in {ABSENT, "not allowed"}, e \in {ABSENT, "model reported error"} }

\* objects that do not: an unknown decision, no decision, no reasoning
InvalidData ==
    { Data("poem_writer", "because", ABSENT, ABSENT),
      Data(ABSENT, "because", ABSENT, ABSENT),
      Data("general_knowledge", ABSENT, ABSENT, ABSENT) }

SampleData == Data("aging_biomarker_tool", "because", ABSENT, ABSENT)

\* a rejection whose rejection_message is the empty string
EmptyMessageData == Data("rejection_handler", "because", "", ABSENT)

\* the replies of the model
LlmTexts ==
    { Text("none", "object", d) : d \in ValidData \cup InvalidData \cup {EmptyMessageData} }
    \cup { Text(f, b, SampleData) : f \in Fences, b \in Bodies }

\* lines 28-34: strip, then cut the body out of a fence the text starts with.
\* junk: something other than the body is left in response_text (the tag of
\* a fence that is not a json fence, or the prose and the fence itself)
StripFence(text) ==
    [junk |-> text.fence \in {"tagged", "inner"}, body |-> text.body, data |-> text.data]

\* json.loads
JsonLoads(response_text) ==
    IF response_text.junk \/ response_text.body \in {"trailing_comma", "garbage"}
    THEN [ok |-> FALSE, body |-> response_text.body, data |-> response_text.data]
    ELSE [ok |-> TRUE, body |-> response_text.body, data |-> response_text.data]

\* re.sub(r',\s*(?=[}\]])', '', response_text)
Sanitized(response_text) ==
    [response_text EXCEPT !.body = IF @ = "trailing_comma" THEN "object" ELSE @]

\* lines 37-42: json.loads, and once more on the sanitized text when it fails
LoadData(response_text) ==
    IF JsonLoads(response_text).ok THEN JsonLoads(response_text)
    ELSE JsonLoads(Sanitized(response_text))

\* RouterOutput(**data): the exception it raises, NONE when it raises none
ValidationFailure(loaded) ==
    IF loaded.body # "object" THEN "TypeError"
    ELSE IF loaded.data.decision \notin Routes \/ loaded.data.reasoning = ABSENT
    THEN "ValidationError"
    ELSE NONE

\* the exception caught by the except clause of parse_routing_decision, NONE when there is none
ParseFailure(llm_response) ==
    LET loaded == LoadData(StripFence(llm_response))
    IN IF ~loaded.ok THEN "JSONDecodeError" ELSE ValidationFailure(loaded)

\* the RouterOutput built on a failure with the decision the model gave (when it gave one)
parse_routing_decision_keeps_decision(llm_response) ==
    LET data == llm_response.data
    IN IF ParseFailure(llm_response) # NONE
       THEN [decision |-> IF data.decision \in Routes THEN data.decision ELSE "rejection_handler",
             reasoning |-> "error parsing routing decision",
             rejection_message |-> NONE,
             error |-> "parse_routing_decision Error: " \o ParseFailure(llm_response)]
       ELSE [decision |-> data.decision,
             reasoning |-> data.reasoning,
             rejection_message |-> Get(data.rejection_message, NONE),
             error |-> Get(data.error, NONE)]

\* the RouterOutput built on a failure without the failure text
parse_routing_decision_silent(llm_response) ==
    LET data == llm_response.data
    IN IF ParseFailure(llm_response) # NONE
       THEN [decision |-> "rejection_handler",
             reasoning |-> "error parsing routing decision",
             rejection_message |-> NONE,
             error |-> NONE]
       ELSE [decision |-> data.decision,
             reasoning |-> data.reasoning,
             rejection_message |-> Get(data.rejection_message, NONE),
             error |-> Get(data.error, NONE)]

parse_routing_decision(llm_response) ==
    LET data == llm_response.data
    IN IF ParseFailure(llm_response) # NONE
       THEN [decision |-> "rejection_handler",
             reasoning |-> "error parsing routing decision",
             rejection_message |-> NONE,
             error |-> "parse_routing_decision Error: " \o ParseFailure(llm_response)]
       ELSE [decision |-> data.decision,
             reasoning |-> data.reasoning,
             rejection_message |-> Get(data.rejection_message, NONE),
             error |-> Get(data.error, NONE)]

(* llm.py *)

\* What llm.decide_route can return: the RouterOutput parsed from the
\* model's text, or the RouterOutput parse_routing_decision builds when the
\* text cannot be parsed.
DecideRouteResults == { parse_routing_decision(t) : t \in LlmTexts }

\* llm.answer_general returns the stripped content of the model's reply
AnswerGeneralResults == {"general answer", ""}

(* tools.py *)

\* Both tools catch their own exceptions and report them in the result
ToolResults(tool) ==
    { [status |-> "ok", response |-> "Detailed response from " \o tool, error |-> NONE],
      [status |-> "error", response |-> ABSENT, error |-> "tool failed"] }

(* graph.py: nodes, continued *)

\* the rejection message kept for a rejection only
RejectionMessage_if_rejected(routing_output) ==
    IF routing_output.decision = "rejection_handler"
    THEN routing_output.rejection_message
    ELSE NONE

\* state["rejection_message"] = routing_output.rejection_message
RejectionMessage(routing_output) == routing_output.rejection_message

classify_and_route ==
    /\ pc = "classify_and_route"
    /\ pc' = "route_branch"
    /\ IF Skip(error)
         THEN UNCHANGED <<graphState, log>>
         ELSE IF chat_history = AbsentHistory
         THEN \* state["chat_history"] raises KeyError
              /\ error' = Append(error, Err("classify_and_route", "KeyError"))
              /\ log' = Append(log, Raise("classify_and_route", "KeyError", "node"))
              /\ UNCHANGED <<user_input, user_id, session_id, enable_streaming,
                             chat_history, route, rejection_message, final_answer>>
         ELSE \/ \* the model call raises, and decide_route with it
                 /\ log' = log \o << Call("llm_invoke", "classify_and_route",
                                          NONE, NONE, NONE, "raise"),
                                     Call("decide_route", "classify_and_route",
                                          user_input, NONE, NONE, "raise"),
                                     Raise("classify_and_route", "llm unavailable", "node") >>
                 /\ error' = Append(error, Err("classify_and_route", "llm unavailable"))
                 /\ UNCHANGED <<route, rejection_message>>
                 /\ UNCHANGED <<user_input, user_id, session_id, enable_streaming,
                                chat_history, final_answer>>
              \/ \E content \in LlmTexts :
                 LET routing_output == parse_routing_decision(content)
                 IN
                 /\ log' = log \o << Call("llm_invoke", "classify_and_route",
                                          content, NONE, NONE, "ok"),
                                     Call("decide_route", "classify_and_route",
                                          user_input, NONE, NONE, routing_output.decision) >>
                 /\ IF ~Falsy(routing_output.error)
                      THEN /\ error' = Append(error, Err("classify_and_route", routing_output.error))
                           /\ UNCHANGED <<route, rejection_message>>
                      ELSE /\ route' = routing_output.decision
                           /\ rejection_message' = RejectionMessage(routing_output)
                           /\ UNCHANGED error
                 /\ UNCHANGED <<user_input, user_id, session_id, enable_streaming,
                                chat_history, final_answer>>
    /\ UNCHANGED <<request, via, stream, delivered, store, uuids, returned, response>>

\* the path function with the rejection handler as its default
RoutePath_rejection(r) == Get(r, "rejection_handler")

\* the path function of the conditional edge after classify_and_route
RoutePath(r) == Get(r, "general_knowledge")

\* the path map of the conditional edge after classify_and_route
\* the path map with the two tool nodes exchanged
RoutePathMap_swapped(key) ==
    CASE key = "longevity_clinical_trial_tool" -> "aging_biomarker_node"
      [] key = "aging_biomarker_tool" -> "longevity_clinical_trial_node"
      [] key = "general_knowledge" -> "general_knowledge_node"
      [] key = "rejection_handler" -> "rejection_handler"

RoutePathMap(key) ==
    CASE key = "longevity_clinical_trial_tool" -> "longevity_clinical_trial_node"
      [] key = "aging_biomarker_tool" -> "aging_biomarker_node"
      [] key = "general_knowledge" -> "general_knowledge_node"
      [] key = "rejection_handler" -> "rejection_handler"

\* the branch writes the route it takes into the state
route_branch_stores_route ==
    /\ pc = "route_branch"
    /\ pc' = RoutePathMap(RoutePath(route))
    /\ route' = RoutePath(route)
    /\ UNCHANGED <<user_input, user_id, session_id, enable_streaming, chat_history,
                   rejection_message, final_answer, error>>
    /\ UNCHANGED <<request, via, log, stream, delivered, store, uuids, returned, response>>

route_branch ==
    /\ pc = "route_branch"
    /\ pc' = RoutePathMap(RoutePath(route))
    /\ UNCHANGED <<request, via, graphState, log, stream, delivered, store, uuids, returned, response>>

\* the chunk a tool node hands to the stream writer
ToolChunk(tool) ==
    [CurrentStep |-> "Researching information using " \o tool,
     Response |-> [answer |-> ABSENT, session_id |-> ABSENT, error |-> <<>>]]

\* writer(chunk): the chunk goes on the custom stream of graph.stream; under
\* graph.invoke there is no custom stream and the writer drops it.  Inside a
\* running graph get_stream_writer returns the writer of the run and putting
\* a chunk on the stream does not fail.
Written(chunk) == IF enable_streaming THEN Append(stream, chunk) ELSE stream

\* the tool called before the progress event is written
ToolNodeSteps_late(node, tool, res) ==
    << Call("tool", node, Get(user_input, NONE), Get(user_id, NONE), tool, res.status),
       Call("writer", node, tool, NONE, NONE, NONE) >>
    \o IF res.status = "error" THEN <<>>
       ELSE << Call("set_final_answer", node, res.response, NONE, NONE, NONE) >>

\* the tool called a second time when its first call reports an error
ToolNodeSteps_retry(node, tool, res) ==
    << Call("writer", node, tool, NONE, NONE, NONE),
       Call("tool", node, Get(user_input, NONE), Get(user_id, NONE), tool, res.status) >>
    \o IF res.status = "error"
       THEN << Call("tool", node, Get(user_input, NONE), Get(user_id, NONE), tool, res.status) >>
       ELSE << Call("set_final_answer", node, res.response, NONE, NONE, NONE) >>

\* What a tool node does once it is not skipped, in order: the writer call,
\* the tool call, and the assignment of final_answer when the tool succeeded
ToolNodeSteps(node, tool, res) ==
    << Call("writer", node, tool, NONE, NONE, NONE),
       Call("tool", node, Get(user_input, NONE), Get(user_id, NONE), tool, res.status) >>
    \o IF res.status = "error" THEN <<>>
       ELSE << Call("set_final_answer", node, res.response, NONE, NONE, NONE) >>

\* the error of the tool appended, then raised and appended again by the
\* except clause
ToolNode_appends_twice(node, tool) ==
    /\ pc = node
    /\ pc' = "save_chat_history"
    /\ IF Skip(error)
         THEN UNCHANGED <<graphState, log, stream>>
         ELSE \E res \in ToolResults(tool) :
              /\ stream' = Written(ToolChunk(tool))
              /\ log' = log \o ToolNodeSteps(node, tool, res)
              /\ IF res.status = "error"
                   THEN /\ error' = error \o << Err(node, res.error), Err(node, res.error) >>
                        /\ UNCHANGED final_answer
                   ELSE /\ final_answer' = res.response
                        /\ UNCHANGED error
              /\ UNCHANGED <<user_input, user_id, session_id, enable_streaming,
                             chat_history, route, rejection_message>>
    /\ UNCHANGED <<request, via, delivered, store, uuids, returned, response>>

\* final_answer assigned from the result whatever its status
ToolNode_answers_anyway(node, tool) ==
    /\ pc = node
    /\ pc' = "save_chat_history"
    /\ IF Skip(error)
         THEN UNCHANGED <<graphState, log, stream>>
         ELSE \E res \in ToolResults(tool) :
              /\ stream' = Written(ToolChunk(tool))
              /\ log' = log \o ToolNodeSteps(node, tool, res)
              /\ final_answer' = Get(res.response, NONE)
              /\ IF res.status = "error"
                   THEN error' = Append(error, Err(node, res.error))
                   ELSE UNCHANGED error
              /\ UNCHANGED <<user_input, user_id, session_id, enable_streaming,
                             chat_history, route, rejection_message>>
    /\ UNCHANGED <<request, via, delivered, store, uuids, returned, response>>

\* longevity_clinical_trial_node and aging_biomarker_node differ in their names only
ToolNode(node, tool) ==
    /\ pc = node
    /\ pc' = "save_chat_history"
    /\ IF Skip(error)
         THEN UNCHANGED <<graphState, log, stream>>
         ELSE \E res \in ToolResults(tool) :
              /\ stream' = Written(ToolChunk(tool))
              /\ log' = log \o ToolNodeSteps(node, tool, res)
              /\ IF res.status = "error"
                   THEN /\ error' = Append(error, Err(node, res.error))
                        /\ UNCHANGED final_answer
                   ELSE /\ final_answer' = res.response
                        /\ UNCHANGED error
              /\ UNCHANGED <<user_input, user_id, session_id, enable_streaming,
                             chat_history, route, rejection_message>>
    /\ UNCHANGED <<request, via, delivered, store, uuids, returned, response>>

longevity_clinical_trial_node ==
    ToolNode("longevity_clinical_trial_node", "longevity_clinical_trial_tool")

aging_biomarker_node ==
    ToolNode("aging_biomarker_node", "aging_biomarker_tool")

\* the skip guard takes the errors out of the state (state.pop for state.get)
general_knowledge_node_pops ==
    /\ pc = "general_knowledge_node"
    /\ pc' = "save_chat_history"
    /\ IF Skip(error)
         THEN /\ error' = <<>>
              /\ UNCHANGED <<user_input, user_id, session_id, enable_streaming,
                             chat_history, route, rejection_message, final_answer, log>>
         ELSE \/ /\ log' = log \o << Call("answer_general", "general_knowledge_node",
                                          user_input, NONE, NONE, "raise"),
                                     Raise("general_knowledge_node", "llm unavailable", "node") >>
                 /\ error' = Append(error, Err("general_knowledge_node", "llm unavailable"))
                 /\ UNCHANGED <<user_input, user_id, session_id, enable_streaming,
                                chat_history, route, rejection_message, final_answer>>
              \/ \E answer \in AnswerGeneralResults :
                 /\ final_answer' = answer
                 /\ log' = log \o << Call("answer_general", "general_knowledge_node",
                                          user_input, NONE, NONE, "ok"),
                                     Call("set_final_answer", "general_knowledge_node",
                                          answer, NONE, NONE, NONE) >>
                 /\ UNCHANGED <<user_input, user_id, session_id, enable_streaming,
                                chat_history, route, rejection_message, error>>
    /\ UNCHANGED <<request, via, stream, delivered, store, uuids, returned, response>>

general_knowledge_node ==
    /\ pc = "general_knowledge_node"
    /\ pc' = "save_chat_history"
    /\ IF Skip(error)
         THEN UNCHANGED <<graphState, log>>
         ELSE \/ \* the model call raises
                 /\ log' = log \o << Call("answer_general", "general_knowledge_node",
                                          user_input, NONE, NONE, "raise"),
                                     Raise("general_knowledge_node", "llm unavailable", "node") >>
                 /\ error' = Append(error, Err("general_knowledge_node", "llm unavailable"))
                 /\ UNCHANGED <<user_input, user_id, session_id, enable_streaming,
                                chat_history, route, rejection_message, final_answer>>
              \/ \E answer \in AnswerGeneralResults :
                 /\ final_answer' = answer
                 /\ log' = log \o << Call("answer_general", "general_knowledge_node",
                                          user_input, NONE, NONE, "ok"),
                                     Call("set_final_answer", "general_knowledge_node",
                                          answer, NONE, NONE, NONE) >>
                 /\ UNCHANGED <<user_input, user_id, session_id, enable_streaming,
                                chat_history, route, rejection_message, error>>
    /\ UNCHANGED <<request, via, stream, delivered, store, uuids, returned, response>>

FallbackAnswer ==
    "Sorry, I can't help with that request. "
    \o "Ask me about biomarkers, clinical trials, or longevity research."

\* the else branch of rejection_handler left out
rejection_handler_no_fallback ==
    /\ pc = "rejection_handler"
    /\ pc' = "save_chat_history"
    /\ IF Skip(error)
         THEN UNCHANGED <<graphState, log>>
         ELSE /\ final_answer' = IF ~Falsy(rejection_message) THEN rejection_message
                                                             ELSE final_answer
              /\ log' = IF ~Falsy(rejection_message)
                        THEN Append(log, Call("set_final_answer", "rejection_handler",
                                              final_answer', NONE, NONE, NONE))
                        ELSE log
              /\ UNCHANGED <<user_input, user_id, session_id, enable_streaming,
                             chat_history, route, rejection_message, error>>
    /\ UNCHANGED <<request, via, stream, delivered, store, uuids, returned, response>>

\* the fixed sentence whatever the rejection message
rejection_handler_ignores_message ==
    /\ pc = "rejection_handler"
    /\ pc' = "save_chat_history"
    /\ IF Skip(error)
         THEN UNCHANGED <<graphState, log>>
         ELSE /\ final_answer' = FallbackAnswer
              /\ log' = Append(log, Call("set_final_answer", "rejection_handler",
                                         final_answer', NONE, NONE, NONE))
              /\ UNCHANGED <<user_input, user_id, session_id, enable_streaming,
                             chat_history, route, rejection_message, error>>
    /\ UNCHANGED <<request, via, stream, delivered, store, uuids, returned, response>>

rejection_handler ==
    /\ pc = "rejection_handler"
    /\ pc' = "save_chat_history"
    /\ IF Skip(error)
         THEN UNCHANGED <<graphState, log>>
         ELSE /\ final_answer' = IF ~Falsy(rejection_message) THEN rejection_message
                                                             ELSE FallbackAnswer
              /\ log' = Append(log, Call("set_final_answer", "rejection_handler",
                                         final_answer', NONE, NONE, NONE))
              /\ UNCHANGED <<user_input, user_id, session_id, enable_streaming,
                             chat_history, route, rejection_message, error>>
    /\ UNCHANGED <<request, via, stream, delivered, store, uuids, returned, response>>


-----------------------------------------------------------------------------
(* db_helper.py: persist_chat_history *)

\* str(uuid.uuid4()): the n-th identifier allocated
Uuid(n) == "uuid-" \o ToString(n)

\* a new session for every message
PersistSession_fresh(sid, allocated) == Uuid(allocated + 1)

\* the session a persist call files the message under: the one it was given,
\* or a new one when it was given none
PersistSession(sid, allocated) == IF Falsy(sid) THEN Uuid(allocated + 1) ELSE sid

\* the number of identifiers allocated after a persist call
PersistAllocated(sid, allocated) == IF Falsy(sid) THEN allocated + 1 ELSE allocated

\* the ChatHistory message a persist call builds
\* the entry tagged with the tool name whatever the role
PersistMessage_tagged(uid, data, role, sid, tool_name) ==
    [user_id |-> uid, session_id |-> sid, role |-> role,
     tool_used |-> tool_name,
     message |-> data]

PersistMessage(uid, data, role, sid, tool_name) ==
    [user_id |-> uid, session_id |-> sid, role |-> role,
     tool_used |-> IF role = "assistant" THEN tool_name ELSE NONE,
     message |-> data]

(* graph.py: save_chat_history *)

\* the identifier a persist call returns is not kept
PersistStep_forget(loc, wanted, ok, data, role, tool_name) ==
    IF ~wanted THEN loc
    ELSE LET sid == PersistSession(loc.session_id, loc.uuids)
         IN [session_id |-> loc.session_id,
             log |-> Append(loc.log, [Call("persist", "save_chat_history", data,
                                           loc.session_id, tool_name,
                                           IF ok THEN sid ELSE "raise")
                                      EXCEPT !.role = role])
                     \o IF ok THEN <<>>
                        ELSE <<Raise("save_chat_history", "persist failed", "inner")>>,
             store |-> IF ok THEN Append(loc.store,
                                         PersistMessage(user_id, data, role, sid, tool_name))
                             ELSE loc.store,
             uuids |-> PersistAllocated(loc.session_id, loc.uuids)]

\* One persist call of save_chat_history inside its own try block, applied
\* to the node's local variables loc = [session_id, log, store, uuids].
\* wanted: the guard `user_id and msg`; ok: the call returns (it raises
\* after the identifier is allocated otherwise, and the node only logs it).
PersistStep(loc, wanted, ok, data, role, tool_name) ==
    IF ~wanted THEN loc
    ELSE LET sid == PersistSession(loc.session_id, loc.uuids)
         IN [session_id |-> IF ok THEN sid ELSE loc.session_id,
             log |-> Append(loc.log, [Call("persist", "save_chat_history", data,
                                           loc.session_id, tool_name,
                                           IF ok THEN sid ELSE "raise")
                                      EXCEPT !.role = role])
                     \o IF ok THEN <<>>
                        ELSE <<Raise("save_chat_history", "persist failed", "inner")>>,
             store |-> IF ok THEN Append(loc.store,
                                         PersistMessage(user_id, data, role, sid, tool_name))
                             ELSE loc.store,
             uuids |-> PersistAllocated(loc.session_id, loc.uuids)]

\* both persist calls in one try block: a failure of the first skips the second
SaveSteps_one_try(loc0, okUser, okAssistant) ==
    LET user_msg == Get(user_input, "")
        assistant_msg == Get(final_answer, "")
        route_used == Get(route, NONE)
        loc1 == PersistStep(loc0, ~Falsy(user_msg), okUser, user_msg, "user", NONE)
    IN IF ~Falsy(user_msg) /\ ~okUser
       THEN loc1
       ELSE PersistStep(loc1, ~Falsy(assistant_msg), okAssistant,
                        assistant_msg, "assistant", route_used)

\* the assistant message saved before the user message
SaveSteps_assistant_first(loc0, okUser, okAssistant) ==
    LET user_msg == Get(user_input, "")
        assistant_msg == Get(final_answer, "")
        route_used == Get(route, NONE)
        loc1 == PersistStep(loc0, ~Falsy(assistant_msg), okAssistant,
                            assistant_msg, "assistant", route_used)
    IN PersistStep(loc1, ~Falsy(user_msg), okUser, user_msg, "user", NONE)

\* the two try blocks of save_chat_history, in their order: the user message,
\* then the assistant message with the route as its tool name
SaveSteps(loc0, okUser, okAssistant) ==
    LET user_msg == Get(user_input, "")
        assistant_msg == Get(final_answer, "")
        route_used == Get(route, NONE)
        loc1 == PersistStep(loc0, ~Falsy(user_msg), okUser, user_msg, "user", NONE)
    IN PersistStep(loc1, ~Falsy(assistant_msg), okAssistant,
                   assistant_msg, "assistant", route_used)

save_chat_history ==
    /\ pc = "save_chat_history"
    /\ pc' = "stream_branch"
    /\ IF Skip(error)
         THEN UNCHANGED <<graphState, log, store, uuids>>
         ELSE IF Falsy(Get(user_id, ""))
         THEN /\ error' = Append(error, Err("save_chat_history", "user_id is missing"))
              /\ UNCHANGED <<user_input, user_id, session_id, enable_streaming,
                             chat_history, route, rejection_message, final_answer,
                             log, store, uuids>>
         ELSE \E okUser \in BOOLEAN, okAssistant \in BOOLEAN :
              LET user_msg == Get(user_input, "")
                  assistant_msg == Get(final_answer, "")
                  loc0 == [session_id |-> Get(session_id, NONE), log |-> log,
                           store |-> store, uuids |-> uuids]
                  loc2 == SaveSteps(loc0, okUser, okAssistant)
              IN /\ (Falsy(user_msg) => okUser)
                 /\ (Falsy(assistant_msg) => okAssistant)
                 /\ session_id' = loc2.session_id
                 /\ log' = loc2.log
                 /\ store' = loc2.store
                 /\ uuids' = loc2.uuids
                 /\ UNCHANGED <<user_input, user_id, enable_streaming, chat_history,
                                route, rejection_message, final_answer, error>>
    /\ UNCHANGED <<request, via, stream, delivered, returned, response>>

\* the streaming edge never taken
StreamPath_never(flag) == "END"

\* the path function and path map of the conditional edge after save_chat_history
StreamPath(flag) == IF flag THEN "stream_final_response" ELSE "END"

stream_branch ==
    /\ pc = "stream_branch"
    /\ pc' = StreamPath(enable_streaming)
    /\ UNCHANGED <<request, via, graphState, log, stream, delivered, store, uuids, returned, response>>

\* the terminal chunk without the errors of the state
DoneChunk_no_errors ==
    [CurrentStep |-> "Done",
     Response |-> [answer |-> Get(final_answer, ""),
                   session_id |-> Get(session_id, ""),
                   error |-> <<>>]]

\* the terminal chunk with the session of the request
DoneChunk_request_session ==
    [CurrentStep |-> "Done",
     Response |-> [answer |-> Get(final_answer, ""),
                   session_id |-> request.session_id,
                   error |-> error]]

\* the chunk stream_final_response hands to the stream writer
DoneChunk ==
    [CurrentStep |-> "Done",
     Response |-> [answer |-> Get(final_answer, ""),
                   session_id |-> Get(session_id, ""),
                   error |-> error]]

stream_final_response ==
    /\ pc = "stream_final_response"
    /\ pc' = "END"
    /\ stream' = Written(DoneChunk)
    /\ log' = Append(log, Call("writer", "stream_final_response", "Done", NONE, NONE, NONE))
    /\ UNCHANGED <<request, via, graphState, delivered, store, uuids, returned, response>>

-----------------------------------------------------------------------------
(* graph.py: run_chat_agent, and app.py after the call *)

\* f"data: {json.dumps(chunk)}\n\n"
Frame(chunk) == <<"data", chunk>>

\* _event_stream: the chunks of graph.stream are yielded one by one, oldest first
event_stream ==
    /\ enable_streaming
    /\ stream # <<>>
    /\ delivered' = Append(delivered, Frame(Head(stream)))
    /\ stream' = Tail(stream)
    /\ UNCHANGED <<request, pc, via, graphState, log, store, uuids, returned, response>>

\* the dict run_chat_agent returns in normal mode
AgentResult ==
    [done |-> TRUE,
     answer |-> Get(final_answer, ""),
     session_id |-> Get(session_id, ""),
     error |-> error]

\* normal mode: graph.invoke has returned and run_chat_agent returns its dict
return_result ==
    /\ pc = "END"
    /\ ~enable_streaming
    /\ pc' = "returned"
    /\ returned' = AgentResult
    /\ UNCHANGED <<request, via, graphState, log, stream, delivered, store, uuids, response>>

\* every dict framed as a success, errors or not
respond_always_ok ==
    /\ pc = "returned"
    /\ via = "http"
    /\ pc' = "responded"
    /\ response' = [kind |-> "json", status |-> 200, answer |-> returned.answer,
                    session_id |-> returned.session_id, error |-> returned.error]
    /\ UNCHANGED <<request, via, graphState, log, stream, delivered, store, uuids, returned>>

\* normal mode: app.py frames the dict
respond ==
    /\ pc = "returned"
    /\ via = "http"
    /\ pc' = "responded"
    /\ response' =
         IF returned.error # <<>>
         THEN [kind |-> "json", status |-> 400, answer |-> ABSENT,
               session_id |-> ABSENT, error |-> returned.error]
         ELSE [kind |-> "json", status |-> 200, answer |-> returned.answer,
               session_id |-> returned.session_id, error |-> returned.error]
    /\ UNCHANGED <<request, via, graphState, log, stream, delivered, store, uuids, returned>>

Next ==
    \/ chat_with_ai_agent
    \/ run_chat_agent
    \/ get_chat_history
    \/ classify_and_route
    \/ route_branch
    \/ longevity_clinical_trial_node
    \/ aging_biomarker_node
    \/ general_knowledge_node
    \/ rejection_handler
    \/ save_chat_history
    \/ stream_branch
    \/ stream_final_response
    \/ event_stream
    \/ return_result
    \/ respond

Spec == Init /\ [][Next]_vars

\* graph.invoke and the loop over graph.stream run the graph to its end, and
\* the caller reads the event stream to its end
FairSpec == Spec /\ WF_vars(Next)

-----------------------------------------------------------------------------
(* Exceptions that escape the graph *)

\* where graph.invoke or the loop over graph.stream can be
GraphSteps == {"get_chat_history", "classify_and_route", "route_branch",
               "aging_biomarker_node", "longevity_clinical_trial_node",
               "general_knowledge_node", "rejection_handler",
               "save_chat_history", "stream_branch", "stream_final_response"}

\* JSONResponse(status_code=500, content={"error": str(e)})
ServerError ==
    [kind |-> "json", status |-> 500, answer |-> ABSENT, session_id |-> ABSENT,
     error |-> << <<"500", "exception">> >>]

\* build_graph raises: run_chat_agent raises before it returns anything, in
\* either mode
build_graph_raises ==
    /\ pc = "start"
    /\ \E caller \in {"http", "direct"} :
         /\ via' = caller
         /\ caller = "http" => ~Invalid
    /\ pc' = "raised"
    /\ InitialState
    /\ UNCHANGED <<request, log, stream, delivered, store, uuids, returned, response>>

\* graph.invoke raises, or graph.stream raises while _event_stream iterates
\* it: the nodes catch their own exceptions, so this is a failure of the
\* framework between or around them
graph_raises ==
    /\ pc \in GraphSteps
    /\ pc' = "raised"
    /\ UNCHANGED <<request, via, graphState, log, stream, delivered, store, uuids,
                   returned, response>>

\* Where the exception ends.  In normal mode, and when build_graph raised,
\* it leaves run_chat_agent inside the try block of the handler and the
\* except clause answers.  In streaming mode the handler has returned its
\* StreamingResponse before the generator ran: the exception is raised while
\* the body is sent, outside the try block, and the event stream breaks off.
\* A direct caller gets the exception itself.
unhandled_exception ==
    /\ pc = "raised"
    /\ pc' = "failed"
    /\ response' = IF via = "http" /\ response.kind = "none" THEN ServerError ELSE response
    /\ UNCHANGED <<request, via, graphState, log, stream, delivered, store, uuids, returned>>

-----------------------------------------------------------------------------
(* db_helper.py: persist_chat_history called by another caller *)

\* the tool names such a caller passes
DirectToolNames == {NONE, "aging_biomarker_tool"}

\* persist_chat_history called without a session, by a caller other than
\* save_chat_history, before the turn: it allocates a session, builds the
\* entry and returns the session, or raises
persist_chat_history ==
    /\ pc = "start"
    /\ log = <<>>
    /\ \E role \in {"user", "assistant"}, tool_name \in DirectToolNames, ok \in BOOLEAN :
         LET sid == PersistSession(NONE, uuids)
         IN /\ log' = Append(log, [Call("persist", "caller", "note", NONE, tool_name,
                                        IF ok THEN sid ELSE "raise")
                                   EXCEPT !.role = role])
            /\ store' = IF ok THEN Append(store, PersistMessage(request.user_id, "note",
                                                               role, sid, tool_name))
                              ELSE store
            /\ uuids' = PersistAllocated(NONE, uuids)
    /\ UNCHANGED <<request, pc, via, graphState, stream, delivered, returned, response>>

StoreNext ==
    \/ Next
    \/ persist_chat_history

StoreSpec == Init /\ [][StoreNext]_vars

FaultNext ==
    \/ Next
    \/ build_graph_raises
    \/ graph_raises
    \/ unhandled_exception

FaultSpec == Init /\ [][FaultNext]_vars

-----------------------------------------------------------------------------
(* Vocabulary of the properties *)

\* positions in the log of the calls of one kind
LogIdx(op) == { i \in 1..Len(log) : log[i].op = op }

\* the entries a step adds to the log
NewIdx == (Len(log) + 1)..Len(log')

AnswerNodes == {"aging_biomarker_node", "longevity_clinical_trial_node",
                "general_knowledge_node", "rejection_handler"}

\* a turn is running or has run: the graph was entered
Started == pc \notin {"start"} /\ user_input # ABSENT

\* the graph has run to its end
GraphEnded == Started /\ pc \in {"END", "returned", "responded"}

\* the turn was started with non-empty userInput and userId
NonEmptyInputs == request.user_query # "" /\ request.user_id # ""

-----------------------------------------------------------------------------
\* C1: in a turn started with non-empty userInput and userId, final_answer
\* is assigned at most once (so by at most one of the four answer nodes),
\* and when the graph ends with no errors it was assigned exactly once, by
\* one of the four answer nodes.
Theorem_C1 ==
    (Started /\ NonEmptyInputs) =>
        /\ Cardinality(LogIdx("set_final_answer")) <= 1
        /\ \A i \in LogIdx("set_final_answer") : log[i].node \in AnswerNodes
        /\ (GraphEnded /\ error = <<>>) => Cardinality(LogIdx("set_final_answer")) = 1

Witness_C1 ==
    /\ GraphEnded /\ NonEmptyInputs /\ error = <<>>
    /\ \E i \in LogIdx("set_final_answer") : log[i].node = "rejection_handler"
    /\ final_answer = FallbackAnswer

\* C2: once errors is non-empty, a step of Classify or of one of the four
\* answer nodes calls no adapter, emits nothing and changes no field of the
\* state.
Theorem_C2 ==
    [][(pc \in AnswerNodes \cup {"classify_and_route"} /\ error # <<>> /\ pc' # pc)
        => /\ UNCHANGED graphState
           /\ log' = log
           /\ stream' = stream]_vars

Witness_C2 ==
    /\ pc = "save_chat_history"
    /\ error # <<>>
    /\ error[1][1] = "Node get_chat_history"
    /\ LogIdx("decide_route") = {}
    /\ final_answer = ABSENT

\* C3 as claimed: in a turn with non-empty userId and userInput, once
\* SaveHistory has run the user message was handed to the store, whatever
\* errors held on entry.
Claim_C3 ==
    (Started /\ NonEmptyInputs /\ pc \in {"stream_branch", "stream_final_response", "END", "returned", "responded"})
        => \E i \in LogIdx("persist") : log[i].role = "user"

\* C3 amended: SaveHistory is skipped when errors is non-empty on entry
\* (no persist call, no change of the state); with errors empty and userId
\* and userInput non-empty it makes the persist call for the user message.
Theorem_C3 ==
    [][(pc = "save_chat_history" /\ pc' # pc /\ NonEmptyInputs)
        => IF error # <<>>
           THEN /\ log' = log
                /\ store' = store
                /\ UNCHANGED graphState
           ELSE \E i \in NewIdx : /\ log'[i].op = "persist"
                                  /\ log'[i].role = "user"
                                  /\ log'[i].arg = user_input]_vars

Witness_C3 ==
    /\ pc = "stream_branch"
    /\ NonEmptyInputs
    /\ error # <<>>
    /\ LogIdx("persist") = {}

\* C4 as claimed: every exception raised inside a node appends exactly one
\* error string prefixed with that node's name.
Claim_C4 ==
    [][\A i \in NewIdx : log'[i].op = "raise"
        => /\ Len(error') = Len(error) + 1
           /\ error'[Len(error')][1] = "Node " \o log'[i].node]_vars

\* C4 amended: an exception raised inside a node never leaves the node and
\* the turn goes on to the next step and to the end of the graph.  An
\* exception caught by the node's own except clause appends exactly one
\* error string prefixed with that node's name; an exception raised by a
\* persist call inside SaveHistory is caught inside the node and only
\* logged, so it appends nothing to errors.
Theorem_C4 ==
    /\ [][\A i \in NewIdx : log'[i].op = "raise"
          => /\ log'[i].node = pc
             /\ pc' \in {"classify_and_route", "route_branch", "save_chat_history",
                         "stream_branch", "END"}
             /\ IF log'[i].result = "inner"
                THEN pc = "save_chat_history" /\ error' = error
                ELSE error' = Append(error, <<"Node " \o pc, log'[i].arg>>)]_vars
    /\ ((LogIdx("raise") # {}) ~> GraphEnded)

Witness_C4 ==
    /\ GraphEnded
    /\ \E i \in LogIdx("raise") : log[i].node = "general_knowledge_node" /\ log[i].result = "node"
    /\ Len(error) = 1

\* C5 as claimed: the branch after Classify sends an unset route to the
\* rejection handler.
Claim_C5 ==
    [][(pc = "route_branch" /\ pc' # pc)
        => pc' = CASE route = "aging_biomarker_tool" -> "aging_biomarker_node"
                   [] route = "longevity_clinical_trial_tool" -> "longevity_clinical_trial_node"
                   [] route = "general_knowledge" -> "general_knowledge_node"
                   [] route = "rejection_handler" -> "rejection_handler"
                   [] route = ABSENT -> "rejection_handler"]_vars

\* C5 amended: the branch after Classify is total and maps each value of
\* route to one node: the two tool routes to their tool nodes,
\* general_knowledge and an unset route to the general-knowledge node, and
\* rejection_handler to the rejection node.
Theorem_C5 ==
    [][(pc = "route_branch" /\ pc' # pc)
        => /\ route \in Routes \cup {ABSENT}
           /\ pc' = CASE route = "aging_biomarker_tool" -> "aging_biomarker_node"
                      [] route = "longevity_clinical_trial_tool" -> "longevity_clinical_trial_node"
                      [] route = "general_knowledge" -> "general_knowledge_node"
                      [] route = "rejection_handler" -> "rejection_handler"
                      [] route = ABSENT -> "general_knowledge_node"]_vars

Witness_C5 ==
    /\ pc = "general_knowledge_node"
    /\ route = ABSENT
    /\ error # <<>>

\* the chunks the caller has seen, then those still on the stream
Chunks == [i \in 1..Len(delivered) |-> delivered[i][2]] \o stream

IsTerminal(chunk) == chunk.CurrentStep = "Done"

\* the writer calls of the turn, in call order
WriterCalls == SelectSeq(log, LAMBDA e : e.op = "writer")

\* C6: in streaming mode the caller sees the chunks in the order the writer
\* was called; what it has seen is at most one start event of a tool node
\* followed by at most one terminal event, nothing follows the terminal
\* event, and when the graph has ended and the stream is read to its end the
\* terminal event is there, exactly once.
Theorem_C6 ==
    (Started /\ enable_streaming) =>
        /\ Len(Chunks) = Len(WriterCalls)
        /\ \A i \in 1..Len(Chunks) :
             Chunks[i].CurrentStep =
                IF WriterCalls[i].arg = "Done" THEN "Done"
                ELSE "Researching information using " \o WriterCalls[i].arg
        /\ Len(delivered) <= 2
        /\ \A i \in 1..Len(delivered) :
             /\ IsTerminal(delivered[i][2]) => i = Len(delivered)
             /\ ~IsTerminal(delivered[i][2]) =>
                  /\ i = 1
                  /\ delivered[i][2].CurrentStep \in
                       {"Researching information using aging_biomarker_tool",
                        "Researching information using longevity_clinical_trial_tool"}
        /\ (GraphEnded /\ stream = <<>>) =>
             /\ delivered # <<>>
             /\ IsTerminal(delivered[Len(delivered)][2])

Witness_C6 ==
    /\ GraphEnded /\ enable_streaming /\ stream = <<>>
    /\ Len(delivered) = 2
    /\ IsTerminal(delivered[2][2])

\* C7: in streaming mode the terminal event carries the final_answer and the
\* session_id of the final state (the empty string for a key that was never
\* set) and its errors, entry for entry.
Theorem_C7 ==
    \A i \in 1..Len(Chunks) :
        IsTerminal(Chunks[i]) =>
            /\ Chunks[i].Response.answer = (IF final_answer = ABSENT THEN "" ELSE final_answer)
            /\ Chunks[i].Response.session_id = (IF session_id = ABSENT THEN "" ELSE session_id)
            /\ Len(Chunks[i].Response.error) = Len(error)
            /\ \A k \in 1..Len(error) : Chunks[i].Response.error[k] = error[k]

Witness_C7 ==
    /\ GraphEnded /\ enable_streaming
    /\ \E i \in 1..Len(delivered) :
         /\ IsTerminal(delivered[i][2])
         /\ delivered[i][2].Response.error # <<>>

ToolNodes == {"aging_biomarker_node", "longevity_clinical_trial_node"}

\* C8 as claimed: in streaming mode each of the four answer nodes, run with
\* errors empty, emits one progress event, before anything else it does.
Claim_C8 ==
    [][(pc \in AnswerNodes /\ pc' # pc /\ error = <<>> /\ enable_streaming)
        => /\ Len(stream') = Len(stream) + 1
           /\ log'[Len(log) + 1].op = "writer"]_vars

\* C8 amended: in streaming mode each of the two tool nodes, run with errors
\* empty, emits one progress event naming its tool, and emits it before it
\* calls the tool and before final_answer is set; the general-knowledge node
\* and the rejection node emit no progress event.
Theorem_C8 ==
    [][(pc \in AnswerNodes /\ pc' # pc /\ error = <<>> /\ enable_streaming)
        => IF pc \in ToolNodes
           THEN /\ Len(stream') = Len(stream) + 1
                /\ SubSeq(stream', 1, Len(stream)) = stream
                /\ stream'[Len(stream')].CurrentStep \in
                     {"Researching information using aging_biomarker_tool",
                      "Researching information using longevity_clinical_trial_tool"}
                /\ \E w \in NewIdx :
                     /\ log'[w].op = "writer"
                     /\ stream'[Len(stream')].CurrentStep =
                          "Researching information using " \o log'[w].arg
                     /\ \A i \in NewIdx \ {w} : log'[i].op # "writer" /\ w < i
                     /\ \E i \in NewIdx : log'[i].op = "tool" /\ log'[i].tool = log'[w].arg
           ELSE /\ stream' = stream
                /\ \A i \in NewIdx : log'[i].op # "writer"]_vars

Witness_C8 ==
    /\ pc = "save_chat_history" /\ enable_streaming /\ error = <<>>
    /\ final_answer = "Detailed response from aging_biomarker_tool"
    /\ Len(Chunks) = 1
    /\ Chunks[1].CurrentStep = "Researching information using aging_biomarker_tool"

\* the persist calls that returned
PersistOk == { i \in LogIdx("persist") : log[i].result # "raise" }

\* C9: in a turn started without a session in which both the user message
\* and the assistant message are persisted, one session identifier is
\* allocated, the assistant call is made with the identifier the user call
\* returned, and both messages are filed under it.
Theorem_C9 ==
    (Started /\ Falsy(request.session_id) /\ Cardinality(PersistOk) = 2) =>
        /\ uuids = 1
        /\ \A i \in PersistOk, j \in PersistOk :
             i < j => /\ log[i].role = "user"
                      /\ log[j].role = "assistant"
                      /\ Falsy(log[i].sid)
                      /\ ~Falsy(log[i].result)
                      /\ log[j].sid = log[i].result
                      /\ log[j].result = log[i].result
        /\ Len(store) = 2
        /\ store[1].session_id = store[2].session_id

Witness_C9 ==
    /\ GraphEnded
    /\ Falsy(request.session_id)
    /\ Cardinality(PersistOk) = 2
    /\ session_id = Uuid(1)

\* C10: after the state is built, session_id changes only from absent to a
\* value (so at most once per turn).  In a turn started with a session, every
\* persist call is made with it and files its message under it, and the
\* terminal event, the returned dict and the HTTP success response carry it.
Theorem_C10 ==
    /\ [][(pc # "start" /\ session_id' # session_id)
           => Falsy(session_id) /\ ~Falsy(session_id')]_vars
    /\ [](Started /\ ~Falsy(request.session_id) =>
            /\ session_id = request.session_id
            /\ \A i \in LogIdx("persist") :
                 /\ log[i].sid = request.session_id
                 /\ log[i].result \in {request.session_id, "raise"}
            /\ \A i \in 1..Len(store) : store[i].session_id = request.session_id
            /\ \A i \in 1..Len(Chunks) :
                 IsTerminal(Chunks[i]) => Chunks[i].Response.session_id = request.session_id
            /\ returned.done => returned.session_id = request.session_id
            /\ response.status = 200 /\ response.kind = "json"
                 => response.session_id = request.session_id)

Witness_C10 ==
    /\ GraphEnded
    /\ request.session_id = "s1"
    /\ Cardinality(PersistOk) = 2
    /\ returned.done

-----------------------------------------------------------------------------
\* C11: when an exception has escaped the execution of a turn, the caller of
\* the endpoint has a single JSON error response and not an event stream:
\* the response is JSON with status 500, in normal and in streaming mode, and
\* no frame of an event stream was delivered.
Claim_C11 ==
    pc = "failed" /\ via = "http"
        => /\ response.kind = "json"
           /\ response.status = 500
           /\ delivered = <<>>

-----------------------------------------------------------------------------
\* a normal-mode turn of the endpoint that passed validation, ran to its end
\* and was answered, with errors non-empty
FailedBlockingTurn ==
    /\ pc = "responded"
    /\ via = "http"
    /\ ~Invalid
    /\ ~request.enable_streaming
    /\ returned.done
    /\ error # <<>>

\* C12 as claimed: such a turn is answered with success framing and a
\* payload that holds answer, sessionId and errors.
Claim_C12 ==
    FailedBlockingTurn
        => /\ response.kind = "json"
           /\ response.status = 200
           /\ response.answer # ABSENT
           /\ response.session_id # ABSENT
           /\ response.error = error

\* C12 as amended: such a turn is answered with status 400 and a JSON
\* payload that holds the errors of the turn and neither answer nor
\* sessionId.
Theorem_C12 ==
    FailedBlockingTurn
        => /\ response.kind = "json"
           /\ response.status = 400
           /\ response.answer = ABSENT
           /\ response.session_id = ABSENT
           /\ response.error = error

Witness_C12 == FailedBlockingTurn /\ response.status = 400 /\ Len(response.error) = 1

-----------------------------------------------------------------------------
\* the texts the model has returned to decide_route in this turn
ClassifierTexts ==
    { log[i].arg : i \in { j \in LogIdx("llm_invoke") : log[j].result = "ok" } }

\* a text that is not, once a json fence or an untagged fence at its start is
\* removed, a JSON object (up to trailing commas) with one of the four
\* decisions and a reasoning
Malformed(text) ==
    \/ text.fence \in {"tagged", "inner"}
    \/ text.body \in {"array", "garbage"}
    \/ text.data.decision \notin Routes
    \/ text.data.reasoning = ABSENT

\* the error strings parse_routing_decision reports through classify_and_route
ParseErrors ==
    { <<"Node classify_and_route", "parse_routing_decision Error: " \o e>> :
        e \in {"JSONDecodeError", "TypeError", "ValidationError"} }

\* C13 as claimed: when the text of the classifier could not be parsed, the
\* turn ends with route = rejection_handler in the state and the parse
\* failure text in errors.
Claim_C13 ==
    GraphEnded /\ (\E t \in ClassifierTexts : Malformed(t))
        => /\ route = "rejection_handler"
           /\ \E k \in 1..Len(error) : error[k] \in ParseErrors

\* C13 as amended: when the text of the classifier could not be parsed, the
\* turn ends with route unset in the state, with the parse failure text as
\* the one entry of errors, and with no final answer.
Theorem_C13 ==
    GraphEnded /\ (\E t \in ClassifierTexts : Malformed(t))
        => /\ route = ABSENT
           /\ Len(error) = 1 /\ error[1] \in ParseErrors
           /\ final_answer = ABSENT

Witness_C13 ==
    /\ GraphEnded
    /\ \E t \in ClassifierTexts : t.body = "garbage"
    /\ route = ABSENT
    /\ error = << <<"Node classify_and_route", "parse_routing_decision Error: JSONDecodeError">> >>

-----------------------------------------------------------------------------
\* C14 as claimed: every call of the classifier returns a value whose
\* decision is one of the four routes, whatever the model call does (a
\* failing call included), and the value has decision = rejection_handler
\* and a non-empty error when the text is malformed.
Claim_C14 ==
    \A i \in LogIdx("decide_route") :
        /\ log[i].result \in Routes
        /\ \A t \in ClassifierTexts :
              Malformed(t) => /\ log[i].result = "rejection_handler"
                              /\ error # <<>> /\ error[1] \in ParseErrors

\* C14 as amended: a call of the classifier whose model call returns a text
\* returns a value whose decision is one of the four routes: the decision
\* of the text when the text is well formed (bare, or in a json or untagged
\* fence at its start, trailing commas allowed), and rejection_handler with
\* a non-empty error when it is malformed.  A failing model call is not
\* caught by the classifier: it raises out of decide_route and the except
\* clause of classify_and_route records it.
Theorem_C14 ==
    \A i \in LogIdx("decide_route") :
        /\ i > 1 /\ log[i - 1].op = "llm_invoke"
        /\ IF log[i - 1].result = "raise"
             THEN /\ log[i].result = "raise"
                  /\ Len(log) > i
                  /\ log[i + 1] = Raise("classify_and_route", log[i + 1].arg, "node")
                  /\ error = << Err("classify_and_route", log[i + 1].arg) >>
             ELSE LET t == log[i - 1].arg
                  IN /\ log[i].result \in Routes
                     /\ Malformed(t) => /\ log[i].result = "rejection_handler"
                                         /\ error # <<>> /\ error[1] \in ParseErrors
                     /\ ~Malformed(t) => log[i].result = t.data.decision

Witness_C14 ==
    /\ \E t \in ClassifierTexts : t.fence = "json" /\ t.body = "trailing_comma"
    /\ \E i \in LogIdx("decide_route") : log[i].result = "aging_biomarker_tool"
    /\ route = "aging_biomarker_tool"

-----------------------------------------------------------------------------
\* C15: route is write-once.  A step that changes route is a step of
\* classify_and_route that assigns one of the four routes to a route that
\* was unset; no other step changes or clears it.
Theorem_C15 ==
    [][route' # route => /\ pc = "classify_and_route"
                          /\ route = ABSENT
                          /\ route' \in Routes]_vars

Witness_C15 ==
    /\ GraphEnded
    /\ route = "longevity_clinical_trial_tool"
    /\ final_answer # ABSENT
    /\ store # <<>>

-----------------------------------------------------------------------------
\* rejection_message holds a value
HasRejectionMessage == rejection_message \notin {ABSENT, NONE}

\* C16 as claimed: rejection_message holds a value only if route is
\* rejection_handler.
Claim_C16 == HasRejectionMessage => route = "rejection_handler"

\* C16 as amended: rejection_message is assigned only by classify_and_route,
\* in the step that assigns route, and it gets the rejection message of the
\* classifier's result whatever the decision is (None when the result has
\* none); so it holds a value only if route is set and the text of the
\* classifier carried one.
Theorem_C16 ==
    [][/\ rejection_message' # rejection_message
          => /\ pc = "classify_and_route"
             /\ route = ABSENT /\ route' \in Routes
             /\ \E i \in NewIdx :
                  /\ log'[i].op = "llm_invoke"
                  /\ log'[i].result = "ok"
                  /\ rejection_message' = Get(log'[i].arg.data.rejection_message, NONE)
       /\ route' # route => rejection_message' # ABSENT
       /\ HasRejectionMessage' => route' \in Routes]_vars

Witness_C16 ==
    /\ GraphEnded
    /\ route = "general_knowledge"
    /\ rejection_message = "not allowed"
    /\ final_answer = "general answer"

-----------------------------------------------------------------------------
\* C17: errors is append-only.  Every step leaves errors as it is or
\* appends to its end, so the errors of a state are a prefix of the errors of
\* every later state.
Theorem_C17 ==
    [][/\ Len(error') >= Len(error)
       /\ SubSeq(error', 1, Len(error)) = error]_vars

Witness_C17 ==
    /\ GraphEnded
    /\ Len(error) = 1
    /\ error[1][1] = "Node get_chat_history"
    /\ pc = "responded"

-----------------------------------------------------------------------------
\* the persist calls of a role
PersistCalls(role) == { i \in LogIdx("persist") : log[i].role = role }

\* the entries of the store with a role
StoreIdx(role) == { k \in 1..Len(store) : store[k].role = role }

\* C18: the persist call for the user message comes before the persist call
\* for the assistant message, and the store gains the user entry before the
\* assistant entry; once save_chat_history has run with errors empty and
\* user_input and final_answer non-empty, both calls were made, each once.
Theorem_C18 ==
    /\ \A i \in PersistCalls("user"), j \in PersistCalls("assistant") : i < j
    /\ \A a \in StoreIdx("user"), b \in StoreIdx("assistant") : a < b
    /\ /\ GraphEnded
       /\ error = <<>>
       /\ ~Falsy(user_input) /\ ~Falsy(final_answer)
       => /\ Cardinality(PersistCalls("user")) = 1
          /\ Cardinality(PersistCalls("assistant")) = 1

Witness_C18 ==
    /\ GraphEnded
    /\ Len(store) = 2
    /\ store[1].role = "user" /\ store[1].message = user_input
    /\ store[2].role = "assistant" /\ store[2].message = final_answer

-----------------------------------------------------------------------------
\* the calls a node has made to an adapter
AdapterCalls(node, op) == { i \in LogIdx(op) : log[i].node = node }

GraphNodes == AnswerNodes \cup {"get_chat_history", "classify_and_route",
                                "save_chat_history", "stream_final_response"}

\* the adapters: the history store (read and write), the classifier, the
\* answering model and the research tools
AdapterOps == {"fetch", "persist", "decide_route", "answer_general", "tool"}

\* C20 as claimed: every node calls an adapter at most once, the history
\* store in save_chat_history included.
Claim_C20 ==
    \A node \in GraphNodes, op \in AdapterOps : Cardinality(AdapterCalls(node, op)) <= 1

\* C20 as amended: every node calls the classifier, the answering model, a
\* research tool and the read of the history store at most once, and each
\* adapter is called by its own node only; save_chat_history calls the
\* write of the history store at most twice, at most once for the user
\* message and at most once for the assistant message.
Theorem_C20 ==
    /\ \A node \in GraphNodes, op \in AdapterOps \ {"persist"} :
          Cardinality(AdapterCalls(node, op)) <= 1
    /\ Cardinality(LogIdx("fetch")) = Cardinality(AdapterCalls("get_chat_history", "fetch"))
    /\ Cardinality(LogIdx("decide_route")) = Cardinality(AdapterCalls("classify_and_route", "decide_route"))
    /\ Cardinality(LogIdx("tool")) <= 1
    /\ \A i \in LogIdx("tool") : log[i].node \in ToolNodes
    /\ \A i \in LogIdx("persist") : log[i].node = "save_chat_history"
    /\ Cardinality(PersistCalls("user")) <= 1
    /\ Cardinality(PersistCalls("assistant")) <= 1

Witness_C20 ==
    /\ GraphEnded
    /\ Cardinality(AdapterCalls("save_chat_history", "persist")) = 2
    /\ Cardinality(AdapterCalls("get_chat_history", "fetch")) = 1
    /\ Cardinality(AdapterCalls("classify_and_route", "decide_route")) = 1
    /\ Cardinality(AdapterCalls("aging_biomarker_node", "tool")) = 1

-----------------------------------------------------------------------------
\* the persist calls that returned, oldest first: the k-th of them built the
\* k-th entry of the store
PersistReturned == SelectSeq(log, LAMBDA e : e.op = "persist" /\ e.result # "raise")

\* C19: an entry persisted with role user has no tool_used, whatever tool
\* name the persist call was given; an entry persisted with role assistant
\* has the tool name of its call, and for the assistant entry of
\* save_chat_history that is the route of the turn whenever route is set.
Theorem_C19 ==
    /\ Len(store) = Len(PersistReturned)
    /\ \A k \in 1..Len(store) :
          LET call == PersistReturned[k]
          IN /\ store[k].role = call.role
             /\ call.role = "user" => store[k].tool_used = NONE
             /\ call.role = "assistant" => store[k].tool_used = call.tool
             /\ /\ call.role = "assistant"
                /\ call.node = "save_chat_history"
                /\ route # ABSENT
                => store[k].tool_used = route

Witness_C19 ==
    /\ Len(store) = 3
    /\ PersistReturned[1].role = "user"
    /\ PersistReturned[1].tool = "aging_biomarker_tool"
    /\ store[1].tool_used = NONE
    /\ store[2].role = "user" /\ store[2].tool_used = NONE
    /\ store[3].role = "assistant"
    /\ route = "longevity_clinical_trial_tool"
    /\ store[3].tool_used = route

-----------------------------------------------------------------------------
\* C21: a request of the endpoint with an empty or whitespace-only
\* user_query or user_id is answered with a structured client error (JSON,
\* status 400), run_chat_agent is not called for it, no node of the graph
\* runs and no adapter is called.
Claim_C21 ==
    via = "http" /\ Invalid
        => /\ pc = "responded"
           /\ response.kind = "json"
           /\ response.status = 400
           /\ user_input = ABSENT
           /\ log = <<>>
           /\ store = <<>>

-----------------------------------------------------------------------------
\* C22: whenever the routing branch is taken with route unset, errors is
\* non-empty, the branch selects general_knowledge_node, and that node does
\* no work: it sets no final_answer, writes no chunk, calls neither a tool
\* nor the model, and changes nothing in the state.
Theorem_C22 ==
    [][/\ pc = "route_branch" /\ route = ABSENT
          => /\ error # <<>>
             /\ pc' = "general_knowledge_node"
       /\ pc \in AnswerNodes /\ route = ABSENT
          => /\ pc = "general_knowledge_node"
             /\ pc' = "save_chat_history"
             /\ UNCHANGED <<graphState, log, stream>>]_vars

Witness_C22 ==
    /\ pc = "save_chat_history"
    /\ route = ABSENT
    /\ Len(error) = 1 /\ error[1][1] = "Node classify_and_route"
    /\ final_answer = ABSENT
    /\ LogIdx("answer_general") = {}

-----------------------------------------------------------------------------
\* the steps of the graph up to the exit branch
UpToExit == GraphSteps \ {"stream_final_response"}

\* C23: up to the exit branch, errors non-empty implies final_answer unset;
\* a tool node whose tool reports an error, and an answer node whose work
\* raises, appends one error with its name and leaves final_answer unset.
Theorem_C23 ==
    [][/\ pc' \in UpToExit /\ error' # <<>> => final_answer' = ABSENT
       /\ \A i \in NewIdx :
            \/ log'[i].op = "tool" /\ log'[i].result = "error"
            \/ log'[i].op = "raise" /\ log'[i].node \in AnswerNodes
            => /\ Len(error') = Len(error) + 1
               /\ error'[Len(error')][1] = "Node " \o log'[i].node
               /\ final_answer' = ABSENT]_vars

Witness_C23 ==
    /\ pc = "stream_branch"
    /\ route = "aging_biomarker_tool"
    /\ \E i \in LogIdx("tool") : log[i].result = "error"
    /\ error = << Err("aging_biomarker_node", "tool failed") >>
    /\ final_answer = ABSENT

-----------------------------------------------------------------------------
\* C24: when rejection_handler runs with errors empty it sets final_answer
\* to rejection_message when that is present and non-empty and to the fixed
\* sentence otherwise; so a turn whose classifier returned the decision
\* rejection_handler with a rejection message X, without error, ends with
\* final_answer = X.
Theorem_C24 ==
    [][/\ pc = "rejection_handler" /\ error = <<>>
          => final_answer' = IF rejection_message \in {ABSENT, NONE, ""}
                             THEN FallbackAnswer
                             ELSE rejection_message
       /\ \A t \in ClassifierTexts' :
            /\ GraphEnded'
            /\ ~Malformed(t)
            /\ t.data.decision = "rejection_handler"
            /\ t.data.error = ABSENT
            /\ t.data.rejection_message \notin {ABSENT, ""}
            => final_answer' = t.data.rejection_message]_vars

Witness_C24 ==
    /\ GraphEnded
    /\ route = "rejection_handler"
    /\ rejection_message = "not allowed"
    /\ final_answer = "not allowed"
    /\ error = <<>>

-----------------------------------------------------------------------------
\* the caller has the terminal response of the turn: the Done frame of the
\* event stream in streaming mode, the dict of run_chat_agent otherwise
TerminalResponse ==
    IF enable_streaming
    THEN \E k \in 1..Len(delivered) : IsTerminal(delivered[k][2])
    ELSE returned.done

\* C25: a persist call of save_chat_history that raises appends nothing to
\* errors, the node still attempts the other persist call when the message
\* of that call is non-empty, the node goes on to the exit branch, and the
\* turn reaches its terminal response.
Theorem_C25 ==
    /\ [][\A i \in NewIdx : log'[i].op = "persist" /\ log'[i].result = "raise"
          => /\ pc = "save_chat_history"
             /\ pc' = "stream_branch"
             /\ error' = error
             /\ error' = <<>>
             /\ log'[i].role = "user" /\ ~Falsy(Get(final_answer, ""))
                => \E j \in NewIdx : /\ j > i
                                      /\ log'[j].op = "persist"
                                      /\ log'[j].role = "assistant"
             /\ log'[i].role = "assistant" /\ ~Falsy(Get(user_input, ""))
                => \E j \in NewIdx : /\ j < i
                                      /\ log'[j].op = "persist"
                                      /\ log'[j].role = "user"]_vars
    /\ ((\E i \in LogIdx("persist") : log[i].result = "raise") ~> TerminalResponse)

Witness_C25 ==
    /\ TerminalResponse
    /\ \E i \in PersistCalls("user") : log[i].result = "raise"
    /\ \E j \in PersistCalls("assistant") : log[j].result # "raise"
    /\ error = <<>>
    /\ Len(store) = 1

-----------------------------------------------------------------------------
\* C26: when the exit branch is taken errors has at most one entry; once
\* errors is non-empty, no step up to the exit branch appends to it.
Theorem_C26 ==
    [][/\ pc' \in UpToExit => Len(error') <= 1
       /\ pc \in UpToExit /\ error # <<>> => error' = error]_vars

Witness_C26 ==
    /\ pc = "stream_branch"
    /\ Len(error) = 1
    /\ error[1] = Err("get_chat_history", "db down")
    /\ route = ABSENT /\ final_answer = ABSENT /\ store = <<>>

-----------------------------------------------------------------------------
\* the terminal chunks written in this turn
TerminalChunks == { Chunks[k] : k \in { n \in 1..Len(Chunks) : IsTerminal(Chunks[n]) } }

\* the writer calls of stream_final_response
TerminalCalls == { i \in LogIdx("writer") : log[i].node = "stream_final_response" }

\* C27 as claimed: every persist call of the turn comes before the
\* terminal event, and when a persist call was made the terminal event
\* carries a session identifier, the one every persist call that returned
\* has returned.
Claim_C27 ==
    /\ \A i \in TerminalCalls, j \in LogIdx("persist") : j < i
    /\ \A chunk \in TerminalChunks :
          LogIdx("persist") # {}
              => /\ ~Falsy(chunk.Response.session_id)
                 /\ \A j \in PersistOk : log[j].result = chunk.Response.session_id

\* C27 as amended: every persist call of the turn comes before the
\* terminal event; the terminal event carries the session identifier the
\* persist calls of the turn returned when any returned, and the session
\* identifier the turn was started with when none did (none was made, or
\* every one raised).
Theorem_C27 ==
    /\ \A i \in TerminalCalls, j \in LogIdx("persist") : j < i
    /\ \A chunk \in TerminalChunks :
          IF PersistOk # {}
          THEN \A j \in PersistOk : log[j].result = chunk.Response.session_id
          ELSE chunk.Response.session_id = request.session_id

Witness_C27 ==
    /\ \E k \in 1..Len(delivered) :
          /\ IsTerminal(delivered[k][2])
          /\ delivered[k][2].Response.session_id = "uuid-1"
    /\ Cardinality(PersistOk) = 2
    /\ request.session_id = NONE

-----------------------------------------------------------------------------
\* the tool a tool node calls
ToolOf(node) ==
    IF node = "aging_biomarker_node" THEN "aging_biomarker_tool"
    ELSE "longevity_clinical_trial_tool"

\* C28: a research tool is called only after the history was fetched with
\* success and get_chat_history appended no error, and after decide_route
\* returned, without error, the route that names the tool, which is then
\* the route of the state; in one turn at most one of the two tools and the
\* answering call of general_knowledge_node is called.
Theorem_C28 ==
    /\ \A i \in LogIdx("tool") :
          /\ log[i].node \in ToolNodes
          /\ log[i].tool = ToolOf(log[i].node)
          /\ route = log[i].tool
          /\ \A k \in 1..Len(error) : error[k][1] = "Node " \o log[i].node
          /\ \E f \in LogIdx("fetch"), d \in LogIdx("decide_route") :
                /\ f < d /\ d < i
                /\ log[f].result = "success"
                /\ log[d].result = log[i].tool
          /\ \A r \in LogIdx("raise") : r > i
    /\ Cardinality(LogIdx("tool") \cup LogIdx("answer_general")) <= 1

Witness_C28 ==
    /\ GraphEnded
    /\ route = "longevity_clinical_trial_tool"
    /\ \E i \in LogIdx("tool") : /\ log[i].tool = "longevity_clinical_trial_tool"
                                  /\ log[i].result = "ok"
    /\ final_answer = "Detailed response from longevity_clinical_trial_tool"
    /\ LogIdx("answer_general") = {}

====
